---- MODULE Spec2Model ----
(***************************************************************************)
(* A model of the uwtools drivers: the FV3 forecast driver                 *)
(* (drivers/forecast.py), the orog driver (drivers/orog.py) and the        *)
(* chgres_cube API entry point (api/chgres_cube.py), over a small model    *)
(* of the filesystem they act on.                                          *)
(***************************************************************************)
EXTENDS Integers, Sequences, FiniteSets, TLC

\* ------------------------------------------------------------------ bounds
MaxCalls == 2
MaxLength == 2
MaxBndyLength == 4
MaxOffset == 2
MaxInterval == 3

\* ------------------------------------------------------------ file names
\* A file name is a record: a base string and two numbers that the code
\* formats into the name (a timestamp suffix, a tile and an hour).
N(b) == [b |-> b, i |-> 0, j |-> 0]
RunDir == <<N("run")>>
INPUT == N("INPUT")
RESTART == N("RESTART")
OldFile == N("old.dat")
NoData == <<>>
OldData == <<<<N("old")>>>>

\* ------------------------------------------------------------ filesystem
\* The filesystem is the set of existing entries; an entry has an absolute
\* path (a sequence of names), a kind ("dir", "file", "link") and its data.
Ent(p, k, d) == [path |-> p, kind |-> k, data |-> d]
Ev(o, p, d) == [op |-> o, path |-> p, data |-> d]

IsPrefix(p, q) == Len(p) <= Len(q) /\ SubSeq(q, 1, Len(p)) = p
Exists(f, p) == \E e \in f : e.path = p
IsDir(f, p) == \E e \in f : e.path = p /\ e.kind = "dir"
IsFile(f, p) == \E e \in f : e.path = p /\ e.kind = "file"
Under(f, p) == {e \in f : IsPrefix(p, e.path) /\ e.path # p}
Children(f, p) == {e \in f : Len(e.path) = Len(p) + 1 /\ IsPrefix(p, e.path)}
Join(p, n) == Append(p, n)
Parent(p) == SubSeq(p, 1, Len(p) - 1)
Rebase(e, p, q) == [e EXCEPT !.path = q \o SubSeq(e.path, Len(p) + 1, Len(e.path))]

RmTree(f, p) == {e \in f : ~IsPrefix(p, e.path)}
Move(f, p, q) == RmTree(f, p) \cup {Rebase(e, p, q) : e \in {x \in f : IsPrefix(p, x.path)}}

\* The prefixes of p, p included, shortest first.
Prefixes(p) == {SubSeq(p, 1, k) : k \in 1..Len(p)}

\* os.makedirs(p) with exist_ok=False: every missing directory on the way is
\* created; an existing target, or a non-directory on the way, is an error.
makedirs(f, p) ==
  IF Exists(f, p) THEN [fs |-> f, err |-> "FileExistsError"]
  ELSE IF \E q \in Prefixes(p) : Exists(f, q) /\ ~IsDir(f, q)
    THEN [fs |-> f, err |-> "NotADirectoryError"]
  ELSE [fs |-> f \cup {Ent(q, "dir", NoData) : q \in {r \in Prefixes(p) : ~Exists(f, r)}},
        err |-> "ok"]

\* ----------------------------------------------- run directory lifecycle
Policies == {"delete", "rename", "quit"}

\* The sibling name an existing directory is moved to: the directory's name
\* with the time of the call as suffix.
SaveDir(directory, t) ==
  [directory EXCEPT ![Len(directory)] = [@ EXCEPT !.i = t]]

handle_existing(f, directory, exist_act, t) ==
  IF exist_act = "delete" /\ IsDir(f, directory)
    THEN [fs |-> RmTree(f, directory),
          ops |-> <<Ev("isdir", directory, NoData), Ev("rmtree", directory, NoData)>>]
  ELSE IF exist_act = "rename" /\ IsDir(f, directory)
    THEN [fs |-> Move(f, directory, SaveDir(directory, t)),
          ops |-> <<Ev("isdir", directory, NoData),
                    Ev("move", directory, <<SaveDir(directory, t)>>)>>]
  ELSE IF exist_act \in {"delete", "rename"}
    THEN [fs |-> f, ops |-> <<Ev("isdir", directory, NoData)>>]
  ELSE [fs |-> f, ops |-> <<>>]

\* The loop over ("INPUT", "RESTART"): the first makedirs that fails raises.
RECURSIVE MakeSubdirs(_, _, _, _)
MakeSubdirsM(f, directory, subdirs, ops) ==
  IF subdirs = <<>> THEN [fs |-> f, ops |-> ops, out |-> "returned"]
  ELSE LET path == Join(directory, Head(subdirs))
           r == makedirs(f, path)
       IN IF r.err # "ok"
            THEN [fs |-> f, ops |-> Append(ops, Ev("makedirs", path, NoData)), out |-> "returned"]
            ELSE MakeSubdirs(r.fs, directory, Tail(subdirs),
                             Append(ops, Ev("makedirs", path, NoData)))

MakeSubdirs(f, directory, subdirs, ops) ==
  IF subdirs = <<>> THEN [fs |-> f, ops |-> ops, out |-> "returned"]
  ELSE LET path == Join(directory, Head(subdirs))
           r == makedirs(f, path)
       IN IF r.err # "ok"
            THEN [fs |-> f, ops |-> Append(ops, Ev("makedirs", path, NoData)), out |-> r.err]
            ELSE MakeSubdirs(r.fs, directory, Tail(subdirs),
                             Append(ops, Ev("makedirs", path, NoData)))

SubdirNamesM == <<INPUT>>
SubdirNames == <<INPUT, RESTART>>

ValidActM(exist_act) == TRUE
ValidAct(exist_act) == exist_act \in {"delete", "rename", "quit"}

QuitCaseM(f, run_directory, exist_act) == FALSE
QuitCase(f, run_directory, exist_act) == exist_act = "quit" /\ IsDir(f, run_directory)

create_directory_structureM(f, run_directory, exist_act, t) ==
  IF ~ValidAct(exist_act)
    THEN [fs |-> f, ops |-> <<>>, out |-> "ValueError"]
  ELSE IF QuitCase(f, run_directory, exist_act)
    THEN [fs |-> f, ops |-> <<Ev("isdir", run_directory, NoData)>>, out |-> "exit1"]
  ELSE LET pre == IF exist_act = "quit"
                    THEN <<Ev("isdir", run_directory, NoData)>> ELSE <<>>
           h == handle_existing(f, run_directory, "delete", t)
       IN MakeSubdirs(h.fs, run_directory, SubdirNames, pre \o h.ops)

create_directory_structure(f, run_directory, exist_act, t) ==
  IF ~ValidAct(exist_act)
    THEN [fs |-> f, ops |-> <<>>, out |-> "ValueError"]
  ELSE IF QuitCase(f, run_directory, exist_act)
    THEN [fs |-> f, ops |-> <<Ev("isdir", run_directory, NoData)>>, out |-> "exit1"]
  ELSE LET pre == IF exist_act = "quit"
                    THEN <<Ev("isdir", run_directory, NoData)>> ELSE <<>>
           h == handle_existing(f, run_directory, exist_act, t)
       IN MakeSubdirs(h.fs, run_directory, SubdirNames, pre \o h.ops)

\* ------------------------------------------------------------ dictionaries
\* A Python dict is a function from its keys; update() overrides.
EmptyDict == [n \in {} |-> <<>>]
Update(a, b) ==
  [n \in DOMAIN a \cup DOMAIN b |-> IF n \in DOMAIN b THEN b[n] ELSE a[n]]

\* ----------------------------------------------------------- FV3Forecast
Num(n) == [b |-> "#", i |-> n, j |-> 0]
Abs(x) == IF x < 0 THEN -x ELSE x

\* (offset, interval, endhour)
_boundary_hoursM(cfg) ==
  LET offset == Abs(cfg.offset)
  IN <<offset, cfg.interval_hours, cfg.length + offset>>

_boundary_hours(cfg) ==
  LET offset == Abs(cfg.offset)
  IN <<offset, cfg.interval_hours, cfg.length + offset + 1>>

\* range(start, stop, step) for step > 0, as a set.
Range(start, stop, step) == {h \in start..(stop - 1) : (h - start) % step = 0}

BndyLink(tile, forecast_hour) == [b |-> "gfs_bndy.tile", i |-> tile, j |-> forecast_hour]
BndyTarget(cfg, tile, boundary_hour) ==
  <<[b |-> cfg.output_file_template, i |-> tile, j |-> boundary_hour]>>

_define_boundary_files(cfg) ==
  LET bh == _boundary_hours(cfg)
      offset == bh[1]
      interval == bh[2]
      endhour == bh[3]
      keys == {BndyLink(cfg.tiles[k], boundary_hour - offset) :
                 k \in DOMAIN cfg.tiles, boundary_hour \in Range(offset, endhour, interval)}
  IN [n \in keys |-> BndyTarget(cfg, n.i, n.j + offset)]

\* Driver.stage_files(run_directory, files_to_stage, link_files=True): one
\* symbolic link in the run directory per entry of the mapping; a link name
\* that already exists is an error.
RECURSIVE stage_files(_, _, _, _)
stage_files(f, run_directory, files_to_stage, ops) ==
  IF DOMAIN files_to_stage = {} THEN [fs |-> f, ops |-> ops, out |-> "returned"]
  ELSE LET dst == CHOOSE n \in DOMAIN files_to_stage : TRUE
           dst_path == Join(run_directory, dst)
           rest == [n \in DOMAIN files_to_stage \ {dst} |-> files_to_stage[n]]
           ev == Ev("symlink", dst_path, <<files_to_stage[dst]>>)
       IN IF Exists(f, dst_path)
            THEN [fs |-> f, ops |-> Append(ops, ev), out |-> "FileExistsError"]
          ELSE IF ~IsDir(f, run_directory)
            THEN [fs |-> f, ops |-> Append(ops, ev), out |-> "FileNotFoundError"]
          ELSE stage_files(f \cup {Ent(dst_path, "link", <<files_to_stage[dst]>>)},
                           run_directory, rest, Append(ops, ev))

\* Driver.run_cmd(*args): the MPI launch command, the arguments, the
\* executable, as one line.
run_cmd(cfg, args) == <<N(cfg.mpicmd)>> \o args \o <<N(cfg.exec_name)>>

RuntimeArgs(cfg) == cfg.mpi_args

\* The environment variable settings, one KEY=VALUE token each.
EnvVars(cfg) ==
  <<N("KMP_AFFINITY=scatter"),
    [b |-> "OMP_NUM_THREADS=", i |-> cfg.threads, j |-> 0],
    [b |-> "OMP_STACKSIZE=", i |-> cfg.threads, j |-> 0],
    N("MPI_TYPE_DEPTH=20"),
    N("ESMF_RUNTIME_COMPLIANCECHECK=OFF:depth=4")>>

\* _mpi_env_variables(delimiter): the settings joined by the delimiter, as
\* lines of text: a newline delimiter gives one line per setting, any other
\* delimiter a single line.
_mpi_env_variablesM(cfg, delimiter) == <<EnvVars(cfg)>>
_mpi_env_variables(cfg, delimiter) ==
  IF delimiter = "\n" THEN [k \in 1..Len(EnvVars(cfg)) |-> <<EnvVars(cfg)[k]>>]
  ELSE <<EnvVars(cfg)>>

\* The scheduler's batch script before the driver appends to it: the
\* directive lines rendered from resources().
Directives(cfg) ==
  <<<<N("#SBATCH"), N("--account"), N(cfg.account)>>,
    <<N("#SBATCH"), N("--scheduler"), N(cfg.scheduler)>>>>

batch_scriptM(cfg) ==
  LET pre_run == _mpi_env_variables(cfg, "\n")
      bs == Directives(cfg)
  IN Append(bs \o pre_run, run_cmd(cfg, <<>>))

batch_script(cfg) ==
  LET pre_run == _mpi_env_variables(cfg, "\n")
      run_time_args == RuntimeArgs(cfg)
      bs == Directives(cfg)
  IN Append(bs \o pre_run, run_cmd(cfg, run_time_args))

WriteFile(f, p, d) == {e \in f : e.path # p} \cup {Ent(p, "file", d)}

Raised(f, ops, cfg, out) == [fs |-> f, ops |-> ops, cfg |-> cfg, out |-> out]

BatchDryRunM(dry) == FALSE
BatchDryRun(dry) == dry

DirectDryRun(dry) == dry

\* FV3Forecast.run(cycle) on filesystem f at time t.
run(f, cfg, dry_run, batch, t) ==
  LET run_directory == cfg.run_dir
      d == create_directory_structure(f, run_directory, "delete", t)
  IN IF d.out # "returned" THEN Raised(d.fs, d.ops, cfg, d.out)
     ELSE
       LET cfg2 == [cfg EXCEPT !.cycle_dependent = Update(@, _define_boundary_files(cfg))]
           s1 == stage_files(d.fs, run_directory, cfg2.static, d.ops)
       IN IF s1.out # "returned" THEN Raised(s1.fs, s1.ops, cfg2, s1.out)
          ELSE
            LET s2 == stage_files(s1.fs, run_directory, cfg2.cycle_dependent, s1.ops)
                run_time_args == RuntimeArgs(cfg2)
            IN IF s2.out # "returned" THEN Raised(s2.fs, s2.ops, cfg2, s2.out)
               ELSE IF batch # <<>>
                 THEN LET script == batch_script(cfg2)
                          outpath == Join(run_directory, batch[1])
                      IN IF BatchDryRun(dry_run)
                           THEN [fs |-> s2.fs, cfg |-> cfg2, out |-> "returned",
                                 ops |-> s2.ops \o <<Ev("log", <<>>, <<<<N("Batch Script:")>>>>),
                                                     Ev("log", <<>>, script)>>]
                           ELSE [fs |-> WriteFile(s2.fs, outpath, script),
                                 cfg |-> cfg2, out |-> "returned",
                                 ops |-> s2.ops \o <<Ev("write", outpath, script),
                                                     Ev("submit", outpath, NoData)>>]
               ELSE IF DirectDryRun(dry_run)
                 THEN [fs |-> s2.fs, cfg |-> cfg2, out |-> "returned",
                       ops |-> s2.ops \o <<Ev("log", <<>>, <<<<N("Would run: ")>>>>),
                                           Ev("log", <<>>, <<run_cmd(cfg2, run_time_args)>>)>>]
               \* subprocess.run(..., check=False): no exit status raises, and
               \* the CompletedProcess it returns is dropped
               ELSE [fs |-> s2.fs, cfg |-> cfg2, out |-> "returned",
                     ops |-> Append(s2.ops, Ev("spawn", <<>>, <<run_cmd(cfg2, run_time_args)>>))]

\* ------------------------------------------------------- task graph engine
\* A task is identified by a sequence of names: the task method's name, then
\* its arguments.  A task is external (an asset that is only checked), atomic
\* ("task": an asset, requirements and an action) or composite ("tasks":
\* requirements only).

RECURSIVE SetToSeq(_)
SetToSeq(S) == IF S = {} THEN <<>>
               ELSE LET x == CHOOSE x \in S : TRUE IN <<x>> \o SetToSeq(S \ {x})

\* Path.is_file() and Path.exists() follow a symbolic link to its target.
Target(f, p) == (CHOOSE e \in f : e.path = p).data[1]
IsLink(f, p) == \E e \in f : e.path = p /\ e.kind = "link"
is_file(f, p) == IsFile(f, p) \/ (IsLink(f, p) /\ IsFile(f, Target(f, p)))
exists(f, p) == IF IsLink(f, p) THEN Exists(f, Target(f, p)) ELSE Exists(f, p)
DataOf(f, p) == (CHOOSE e \in f : e.path = p).data

\* Writing a file through writable(): the missing parent directories are
\* created first.
WriteWithParents(f, p, d) ==
  IF \E q \in Prefixes(Parent(p)) : Exists(f, q) /\ ~IsDir(f, q)
    THEN [fs |-> f, out |-> "NotADirectoryError"]
  ELSE IF IsDir(f, p) THEN [fs |-> f, out |-> "IsADirectoryError"]
  ELSE [fs |-> WriteFile(f, p, d)
               \cup {Ent(q, "dir", NoData) : q \in {r \in Prefixes(Parent(p)) : ~Exists(f, r)}},
        out |-> "ok"]

MakeLink(f, p, target) ==
  IF \E q \in Prefixes(Parent(p)) : Exists(f, q) /\ ~IsDir(f, q)
    THEN [fs |-> f, out |-> "NotADirectoryError"]
  ELSE IF Exists(f, p) THEN [fs |-> f, out |-> "FileExistsError"]
  ELSE [fs |-> f \cup {Ent(p, "link", <<target>>)}
               \cup {Ent(q, "dir", NoData) : q \in {r \in Prefixes(Parent(p)) : ~Exists(f, r)}},
        out |-> "ok"]

\* ------------------------------------------------------------------- Orog
\* A configuration mapping whose order matters is a sequence of key/value
\* pairs, in the order of the configuration file.
Lookup(items, key) == (CHOOSE k \in 1..Len(items) : items[k].k = key)
ValueOf(items, key) == items[Lookup(items, key)].v

ordered_entries == <<"mtnres", "lonb", "latb", "jcap", "nr", "nf1", "nf2", "efac", "blat">>

_input_config_pathM(cfg) == Join(cfg.rundir, N("INPS.tmp"))
_input_config_path(cfg) == Join(cfg.rundir, N("INPS"))
NoneGrid == <<N("none")>>

\* The lines of the input config file, or the error of "\n".join(content).
\* None is <<>>; a present value is wrapped in a one-element sequence.
InpsContent(cfg) ==
  LET old == cfg.old_line1_items
      inputs == IF old # <<>> /\ old[1] # <<>>
                  THEN <<[k \in 1..Len(ordered_entries) |->
                            Num(ValueOf(old[1], ordered_entries[k]))]>>
                  ELSE <<>>
      outgrid == <<cfg.grid_file>>
      orogfile == IF cfg.orog_file = <<>> THEN <<>> ELSE <<cfg.orog_file[1]>>
      mask_only == IF cfg.mask = <<>> THEN <<<<N(".false.")>>>> ELSE <<<<cfg.mask[1]>>>>
      merge_file == IF cfg.merge = <<>> THEN <<<<N("none")>>>> ELSE <<<<cfg.merge[1]>>>>
  IN [lines |-> inputs \o outgrid \o orogfile \o mask_only \o merge_file,
      \* an empty old_line1_items is falsy but not None: it stays in content
      out |-> IF old # <<>> /\ old[1] = <<>> THEN "TypeError" ELSE "ok"]

RunscriptName(driver) ==
  IF driver = "orog" THEN N("runscript.orog") ELSE N("runscript.chgres_cube")

\* Driver._runcmd and the runscript's text.
_runcmd(cfg) == <<N(cfg.executable), N("<"), N("INPS")>>
RunscriptText(env) ==
  IF env.driver = "orog" THEN <<<<N("#!/bin/bash")>>, _runcmd(env.cfg)>>
  ELSE <<<<N("#!/bin/bash")>>, <<N(env.cfg.executable)>>>>

T1(name) == <<N(name)>>
TaskType(id) == id[1].b
TaskArgs(id) == Tail(id)

OrogRequires == <<"files_copied", "files_linked", "input_config_file", "runscript">>

\* input_config_file requires the grid file task, yielded ahead of its action.
InputConfigRequiresM == <<>>
InputConfigRequires == <<T1("grid_file")>>

\* What each task method of the Orog driver yields: its kind, its asset (<<>>
\* for none) with the readiness check, and its requirements in the order the
\* method lists them.
OrogTaskSpec(cfg, id) ==
  LET t == TaskType(id)
  IN CASE t = "provisioned_rundir" ->
            [kind |-> "tasks", asset |-> <<>>, check |-> "none",
             requires |-> [k \in 1..Len(OrogRequires) |-> T1(OrogRequires[k])]]
       [] t = "files_copied" ->
            [kind |-> "tasks", asset |-> <<>>, check |-> "none",
             requires |-> LET ks == SetToSeq(DOMAIN cfg.files_to_copy)
                          IN [k \in 1..Len(ks) |-> <<N("filecopy"), ks[k]>>]]
       [] t = "files_linked" ->
            [kind |-> "tasks", asset |-> <<>>, check |-> "none",
             requires |-> LET ks == SetToSeq(DOMAIN cfg.files_to_link)
                          IN [k \in 1..Len(ks) |-> <<N("symlink"), ks[k]>>]]
       [] t = "grid_file" ->
            [kind |-> "external",
             asset |-> IF cfg.grid_file # NoneGrid THEN cfg.grid_file ELSE <<>>,
             check |-> "is_file", requires |-> <<>>]
       [] t = "input_config_file" ->
            [kind |-> "task", asset |-> _input_config_path(cfg), check |-> "is_file",
             requires |-> InputConfigRequires]

OrogMethods == {"provisioned_rundir", "files_copied", "files_linked", "grid_file",
                "input_config_file"}

\* The tasks the drivers take from elsewhere: the file tasks (filecopy,
\* symlink and the external tasks they require), the runscript task of the
\* driver base class, and the tasks of the chgres_cube driver.
LibTaskSpec(env, id) ==
  LET cfg == env.cfg
      t == TaskType(id)
  IN CASE t = "filecopy" ->
            [kind |-> "task", asset |-> Join(cfg.rundir, id[2]), check |-> "is_file",
             requires |-> <<<<N("file")>> \o cfg.files_to_copy[id[2]]>>]
       [] t = "symlink" ->
            [kind |-> "task", asset |-> Join(cfg.rundir, id[2]), check |-> "exists",
             requires |-> <<<<N("existing")>> \o cfg.files_to_link[id[2]]>>]
       [] t = "file" ->
            [kind |-> "external", asset |-> TaskArgs(id), check |-> "is_file",
             requires |-> <<>>]
       [] t = "existing" ->
            [kind |-> "external", asset |-> TaskArgs(id), check |-> "exists",
             requires |-> <<>>]
       [] t = "runscript" ->
            [kind |-> "task", asset |-> Join(cfg.rundir, RunscriptName(env.driver)),
             check |-> "is_file", requires |-> <<>>]
       [] t = "provisioned_rundir" ->
            [kind |-> "tasks", asset |-> <<>>, check |-> "none",
             requires |-> <<T1("namelist_file"), T1("runscript")>>]
       [] t = "namelist_file" ->
            [kind |-> "task", asset |-> Join(cfg.rundir, N("fort.41")),
             check |-> "is_file", requires |-> <<>>]
       [] t = "run" ->
            [kind |-> "task", asset |-> Join(cfg.rundir, N("done")),
             check |-> "is_file", requires |-> <<T1("provisioned_rundir")>>]

TaskSpec(env, id) ==
  IF env.driver = "orog" /\ TaskType(id) \in OrogMethods
    THEN OrogTaskSpec(env.cfg, id)
    ELSE LibTaskSpec(env, id)

AssetReady(f, node) ==
  IF node.asset = <<>> THEN TRUE
  ELSE IF node.check = "is_file" THEN is_file(f, node.asset)
  ELSE exists(f, node.asset)

\* The body of Orog.input_config_file after its last yield: the action.
\* The file is opened (and so created or emptied) by writable() before the
\* content is joined: a join that fails leaves an empty file behind.
input_config_file(cfg, f) ==
  LET path == _input_config_path(cfg)
      c == InpsContent(cfg)
      o == WriteWithParents(f, path, NoData)
      w == WriteWithParents(f, path, c.lines)
  IN IF o.out # "ok" THEN [fs |-> f, ops |-> <<Ev("write", path, NoData)>>, out |-> o.out]
     ELSE IF c.out # "ok"
       THEN [fs |-> o.fs, ops |-> <<Ev("write", path, NoData)>>, out |-> c.out]
     ELSE [fs |-> w.fs, ops |-> <<Ev("write", path, c.lines)>>, out |-> w.out]

\* The actions of the tasks taken from elsewhere.
LibAction(env, f, id) ==
  LET cfg == env.cfg
      t == TaskType(id)
      node == TaskSpec(env, id)
  IN CASE t = "runscript" ->
            LET w == WriteWithParents(f, node.asset, RunscriptText(env))
            IN [fs |-> w.fs, ops |-> <<Ev("write", node.asset, RunscriptText(env))>>,
                out |-> w.out]
       [] t = "namelist_file" ->
            LET w == WriteWithParents(f, node.asset, <<<<N("&config"), N("/")>>>>)
            IN [fs |-> w.fs, ops |-> <<Ev("write", node.asset, <<<<N("&config"), N("/")>>>>)>>,
                out |-> w.out]
       [] t = "filecopy" ->
            LET src == cfg.files_to_copy[id[2]]
                w == WriteWithParents(f, node.asset, DataOf(f, src))
            IN [fs |-> w.fs, ops |-> <<Ev("copy", node.asset, <<src>>)>>, out |-> w.out]
       [] t = "symlink" ->
            LET target == cfg.files_to_link[id[2]]
                w == MakeLink(f, node.asset, target)
            IN [fs |-> w.fs, ops |-> <<Ev("symlink", node.asset, <<target>>)>>, out |-> w.out]
       [] t = "run" ->
            LET ev == IF env.batch
                        THEN Ev("submit", Join(cfg.rundir, RunscriptName(env.driver)), NoData)
                        ELSE Ev("spawn", cfg.rundir, <<<<RunscriptName(env.driver)>>>>)
                w == IF env.rc = 0 /\ ~env.batch
                       THEN WriteWithParents(f, node.asset, NoData)
                       ELSE [fs |-> f, out |-> "ok"]
            IN [fs |-> w.fs, ops |-> <<ev>>, out |-> w.out]

Action(env, f, id) ==
  IF env.driver = "orog" /\ TaskType(id) = "input_config_file"
    THEN input_config_file(env.cfg, f)
    ELSE LibAction(env, f, id)

Node(id, requires, ready) == [task |-> id, requires |-> requires, ready |-> ready]
Start(f, trace) == [fs |-> f, ops |-> <<>>, trace |-> trace, out |-> "ok", ready |-> TRUE]

\* The requirements of a task are listed by calling each task method, and a
\* call evaluates its task: the whole list is evaluated left to right before
\* the engine sees it.  A task that is not ready returns; only an exception
\* ends the evaluation of the list.
StopsList(r) == r.out # "ok"

RECURSIVE Satisfy(_, _, _)
RECURSIVE SatisfyAll(_, _, _)
SatisfyAll(env, st, ids) ==
  IF ids = <<>> THEN [st EXCEPT !.ready = TRUE]
  ELSE LET r == Satisfy(env, st, Head(ids))
       IN IF StopsList(r) THEN r
          ELSE LET rest == SatisfyAll(env, r, Tail(ids))
               IN [rest EXCEPT !.ready = r.ready /\ rest.ready]

AssetShortCircuitM(f, node) == FALSE
AssetShortCircuit(f, node) == AssetReady(f, node)

Satisfy(env, st, id) ==
  LET node == TaskSpec(env, id)
      st1 == [st EXCEPT !.ops = Append(@, Ev("eval", id, NoData))]
  IN IF node.kind = "external"
       THEN LET rdy == AssetReady(st1.fs, node)
            IN [st1 EXCEPT !.ready = rdy, !.trace = Append(@, Node(id, <<>>, rdy))]
     ELSE
       LET r == SatisfyAll(env, st1, node.requires)
       IN IF r.out # "ok" THEN r
          ELSE IF node.kind = "tasks"
            THEN [r EXCEPT !.trace = Append(@, Node(id, node.requires, r.ready))]
          ELSE IF ~r.ready
            THEN [r EXCEPT !.ready = FALSE,
                           !.trace = Append(@, Node(id, node.requires, FALSE))]
          ELSE IF AssetShortCircuit(r.fs, node)
            THEN [r EXCEPT !.ready = TRUE,
                           !.trace = Append(@, Node(id, node.requires, TRUE))]
          \* in dry-run mode the action is skipped
          ELSE IF env.dry_run
            THEN [r EXCEPT !.ready = FALSE,
                           !.trace = Append(@, Node(id, node.requires, FALSE))]
          ELSE
            LET a == Action(env, r.fs, id)
                ops2 == Append(r.ops, Ev("action", id, NoData)) \o a.ops
            IN IF a.out # "ok"
                 THEN [r EXCEPT !.ops = ops2, !.out = a.out, !.ready = FALSE]
                 ELSE [r EXCEPT !.fs = a.fs, !.ops = ops2,
                                !.ready = AssetReady(a.fs, node),
                                !.trace = Append(@, Node(id, node.requires,
                                                         AssetReady(a.fs, node)))]

\* A top-level call of a task method: the process-wide trace is reset, then
\* the task is evaluated.
TopLevel(env, f, id) == Satisfy(env, Start(f, <<>>), id)

\* -------------------------------------------------------- chgres_cube API
\* graph(): the text of the most recently walked task graph, one line per
\* node (with its readiness) and one per requires-edge.
RECURSIVE EdgeLines(_, _)
EdgeLines(id, requires) ==
  IF requires = <<>> THEN <<>>
  ELSE <<id \o <<N("->")>> \o Head(requires)>> \o EdgeLines(id, Tail(requires))

RECURSIVE graph(_)
graph(trace) ==
  IF trace = <<>> THEN <<>>
  ELSE LET n == Head(trace)
       IN <<<<N(IF n.ready THEN "ready" ELSE "pending")>> \o n.task>>
          \o EdgeLines(n.task, n.requires) \o graph(Tail(trace))

\* The names execute() can be given: the driver's task methods, a method every
\* object has that is not a task, an attribute that is not callable, and a
\* name the driver does not have.
ChgresTasks == {"namelist_file", "runscript", "provisioned_rundir", "run"}
OtherMethods == {"__repr__"}
PlainAttributes == {"__doc__"}
UnknownNames == {"frobnicate"}

\* getattr(obj, task): "AttributeError" if obj has no such attribute.
getattr(task) ==
  IF task \in ChgresTasks THEN "task"
  ELSE IF task \in OtherMethods THEN "method"
  ELSE IF task \in PlainAttributes THEN "attribute"
  ELSE "AttributeError"

WriteGraph(r, graph_file) ==
  IF graph_file = <<>> THEN [r EXCEPT !.out = "returned"]
  ELSE [r EXCEPT !.fs = WriteFile(r.fs, graph_file, graph(r.trace)),
                 !.ops = Append(r.ops, Ev("write", graph_file, graph(r.trace))),
                 !.out = "returned"]

executeM(env, f, trace, task, graph_file) ==
  LET a == getattr(task)
      same == Start(f, trace)
  IN IF a = "AttributeError" THEN [same EXCEPT !.out = "AttributeError"]
     ELSE IF a = "attribute" THEN [same EXCEPT !.out = "TypeError"]
     ELSE IF a = "method" THEN WriteGraph(same, graph_file)
     ELSE LET w == WriteGraph(same, graph_file)
              r == TopLevel(env, w.fs, T1(task))
          IN IF r.out # "ok" THEN [r EXCEPT !.ops = w.ops \o @]
             ELSE [r EXCEPT !.ops = w.ops \o @, !.out = "returned"]

\* execute(task, cycle, config, batch, dry_run, graph_file), with the
\* process-wide trace of the engine as it is before the call.
execute(env, f, trace, task, graph_file) ==
  LET a == getattr(task)
      same == Start(f, trace)
  IN IF a = "AttributeError" THEN [same EXCEPT !.out = "AttributeError"]
     ELSE IF a = "attribute" THEN [same EXCEPT !.out = "TypeError"]
     ELSE IF a = "method" THEN WriteGraph(same, graph_file)
     ELSE LET r == TopLevel(env, f, T1(task))
          IN IF r.out # "ok" THEN r ELSE WriteGraph(r, graph_file)

\* ------------------------------------------------------------------ state
VARIABLES
  prog,       \* the program of this process: which driver it runs
  dry_run,    \* the driver's dry_run flag
  batch,      \* the driver's batch script name: <<>> (None) or <<name>>
  config,     \* the driver's configuration mapping
  fs,         \* the filesystem
  now,        \* the clock
  ncalls,     \* the number of calls made so far
  op,         \* the last operation called
  arg,        \* its argument
  out,        \* how it ended: "returned", "exit1" or the exception raised
  ops,        \* what it did, in order: filesystem accesses, logs, processes
  pre,        \* the filesystem before it
  graph_arg,  \* the graph_file argument of the last execute(): <<>> is None
  ret,        \* what it returned, when it returned
  trace,      \* the engine's process-wide record of the last task graph walked
  pretrace,   \* that record before the last call
  rc,         \* the exit status the model executable ends with when it is run
  bfiles      \* what the last _define_boundary_files() returned

vars == <<prog, dry_run, batch, config, fs, now, ncalls, op, arg, out, ops, pre,
          graph_arg, ret, trace, pretrace, rc, bfiles>>

\* The states of the run directory a call can find: absent, a plain file, an
\* empty directory, a populated directory.
AbsentRun == {}
FileRun == {Ent(RunDir, "file", OldData)}
EmptyRun == {Ent(RunDir, "dir", NoData)}
OldRun == {Ent(RunDir, "dir", NoData), Ent(Join(RunDir, OldFile), "file", OldData)}
InpsRun == {Ent(RunDir, "dir", NoData), Ent(Join(RunDir, N("INPS")), "file", OldData)}
SubdirsRun ==
  {Ent(RunDir, "dir", NoData), Ent(Join(RunDir, INPUT), "dir", NoData),
   Ent(Join(RunDir, RESTART), "dir", NoData)}
DeepRun ==
  {Ent(RunDir, "dir", NoData), Ent(Join(RunDir, INPUT), "dir", NoData),
   Ent(Join(Join(RunDir, INPUT), OldFile), "file", OldData),
   Ent(Join(RunDir, OldFile), "file", OldData)}

RunStates(p) ==
  CASE p = "fv3" -> {AbsentRun, FileRun, EmptyRun, OldRun, SubdirsRun, DeepRun}
    [] p = "orog" -> {AbsentRun, FileRun, EmptyRun, InpsRun}
    [] p = "chgres" -> {AbsentRun, FileRun, EmptyRun}

FixLink == N("fix.nc")
FixTarget == <<N("/fix/fix.nc")>>
ICLink == N("ic.nc")
ICTarget == <<N("/ics/ic.nc")>>

FV3Configs ==
  [run_dir : {RunDir},
   static : {[n \in {FixLink} |-> FixTarget]},
   cycle_dependent : {[n \in {ICLink} |-> ICTarget]},
   tiles : {<<1, 2>>},
   length : 0..MaxLength,
   offset : {-1, 0, 1},
   interval_hours : {1, 2},
   output_file_template : {"/lbcs/tile{tile}.f{forecast_hour}.nc"},
   mpi_args : {<<>>, <<N("--ntasks"), Num(4)>>},
   threads : {1},
   mpicmd : {"srun"},
   exec_name : {"fv3.exe"},
   account : {"acct"},
   scheduler : {"slurm"}]

BatchNames == {<<>>, <<N("job.sh")>>}

\* The nine fields in the order of ordered_entries, and in the reverse order.
Items1 == [k \in 1..9 |-> [k |-> ordered_entries[k], v |-> k]]
Items2 == [k \in 1..9 |-> [k |-> ordered_entries[10 - k], v |-> 10 - k]]

CopyName == N("a.nc")
CopySrc == <<N("/src/a.nc")>>
LinkName == N("b.nc")
LinkTarget == <<N("/src/b.nc")>>
GridPath == <<N("/grid/g.nc")>>

OrogFiles ==
  {[copy |-> EmptyDict, link |-> EmptyDict],
   [copy |-> [n \in {CopyName} |-> CopySrc], link |-> [n \in {LinkName} |-> LinkTarget]]}

OrogConfigs ==
  {[rundir |-> RunDir,
    files_to_copy |-> fl.copy,
    files_to_link |-> fl.link,
    grid_file |-> g,
    old_line1_items |-> old,
    orog_file |-> <<<<N("/orog/o.nc")>>>>,
    mask |-> <<>>,
    merge |-> <<>>,
    executable |-> "orog.x"] :
     fl \in OrogFiles, g \in {NoneGrid, GridPath},
     old \in {<<>>, <<<<>>>>, <<Items1>>, <<Items2>>}}

ChgresConfigs == [rundir : {RunDir}, executable : {"chgres_cube"}]

\* The files outside the run directory that the configuration names.
SourceStates ==
  {s \cup g : s \in {{}, {Ent(CopySrc, "file", <<<<N("a")>>>>), Ent(LinkTarget, "file", <<<<N("b")>>>>)}},
              g \in {{}, {Ent(GridPath, "file", <<<<N("g")>>>>)}}}

GraphFile == <<N("graph.dot")>>

Init ==
  /\ prog \in {"fv3", "orog", "chgres"}
  /\ dry_run \in BOOLEAN
  /\ batch \in IF prog = "orog" THEN {<<>>} ELSE BatchNames
  /\ config \in CASE prog = "fv3" -> FV3Configs
                  [] prog = "orog" -> OrogConfigs
                  [] prog = "chgres" -> ChgresConfigs
  /\ fs \in {r \cup s : r \in RunStates(prog),
                        s \in IF prog = "orog" THEN SourceStates ELSE {{}}}
  /\ graph_arg = <<>>
  /\ ret = "none"
  /\ trace = <<>>
  /\ pretrace = <<>>
  /\ rc \in IF prog = "orog" THEN {0} ELSE {0, 1}
  /\ bfiles = EmptyDict
  /\ now = 1
  /\ ncalls = 0
  /\ op = "none"
  /\ arg = "none"
  /\ out = "none"
  /\ ops = <<>>
  /\ pre = fs

\* The process is alive: it has not exited, and the call budget is not spent.
Alive == out # "exit1" /\ ncalls < MaxCalls

Called(o, a, r) ==
  /\ op' = o
  /\ arg' = a
  /\ out' = r.out
  /\ ops' = r.ops
  /\ fs' = r.fs
  /\ pre' = fs
  /\ now' = now + 1
  /\ ncalls' = ncalls + 1
  /\ pretrace' = trace

\* FV3Forecast.create_directory_structure(run_directory, exist_act)
CallCreateDirectoryStructure ==
  /\ prog = "fv3"
  /\ Alive
  /\ \E exist_act \in Policies \cup {"frobnicate"} :
       Called("create_directory_structure", exist_act,
              create_directory_structure(fs, config.run_dir, exist_act, now))
  /\ ret' = "None"
  /\ UNCHANGED <<prog, dry_run, batch, config, graph_arg, trace, rc, bfiles>>

\* FV3Forecast.run(cycle)
CallRun ==
  /\ prog = "fv3"
  /\ Alive
  /\ LET r == run(fs, config, dry_run, batch, now)
     IN /\ Called("run", "cycle", r)
        /\ config' = r.cfg
  /\ ret' = "None"
  /\ UNCHANGED <<prog, dry_run, batch, graph_arg, trace, rc, bfiles>>

Env == [driver |-> prog, cfg |-> config, dry_run |-> dry_run,
        batch |-> (batch # <<>>), rc |-> rc]
Outcome(r) == [r EXCEPT !.out = IF @ = "ok" THEN "returned" ELSE @]

OrogTasks == {"files_copied", "files_linked", "grid_file", "input_config_file",
              "provisioned_rundir", "runscript"}

\* A task method of the Orog driver called on the driver object.
CallOrogTask ==
  /\ prog = "orog"
  /\ Alive
  /\ \E task \in OrogTasks :
       LET r == TopLevel(Env, fs, T1(task))
       IN /\ Called(task, "none", Outcome(r))
          /\ trace' = r.trace
  /\ ret' = "None"
  /\ UNCHANGED <<prog, dry_run, batch, config, graph_arg, rc, bfiles>>

\* execute(task, cycle, config, batch, dry_run, graph_file) of the chgres_cube API
CallExecute ==
  /\ prog = "chgres"
  /\ Alive
  /\ \E task \in ChgresTasks \cup OtherMethods \cup PlainAttributes \cup UnknownNames,
        graph_file \in {<<>>, GraphFile} :
       LET r == execute(Env, fs, trace, task, graph_file)
       IN /\ Called("execute", task, r)
          /\ trace' = r.trace
          /\ graph_arg' = graph_file
          /\ ret' = IF r.out = "returned" THEN "True" ELSE "none"
  /\ UNCHANGED <<prog, dry_run, batch, config, rc, bfiles>>

Next ==
  \/ CallCreateDirectoryStructure
  \/ CallRun
  \/ CallOrogTask
  \/ CallExecute

Spec == Init /\ [][Next]_vars

\* ------------------------------------------- the boundary files on their own
\* FV3Forecast._define_boundary_files() over a wider range of lateral
\* boundary settings than run() is checked with: no tile, one tile, two
\* tiles; intervals that do and do not divide the forecast length; offsets of
\* either sign.
BoundaryConfigs ==
  [run_dir : {RunDir},
   static : {EmptyDict},
   cycle_dependent : {EmptyDict},
   tiles : {<<>>, <<7>>, <<1, 2>>},
   length : 0..MaxBndyLength,
   offset : (0 - MaxOffset)..MaxOffset,
   interval_hours : 1..MaxInterval,
   output_file_template : {"/lbcs/tile{tile}.f{forecast_hour}.nc"},
   mpi_args : {<<>>},
   threads : {1},
   mpicmd : {"srun"},
   exec_name : {"fv3.exe"},
   account : {"acct"},
   scheduler : {"slurm"}]

InitBoundary ==
  /\ prog = "fv3"
  /\ dry_run = FALSE
  /\ batch = <<>>
  /\ config \in BoundaryConfigs
  /\ fs = AbsentRun
  /\ graph_arg = <<>>
  /\ ret = "none"
  /\ trace = <<>>
  /\ pretrace = <<>>
  /\ rc = 0
  /\ bfiles = EmptyDict
  /\ now = 1
  /\ ncalls = 0
  /\ op = "none"
  /\ arg = "none"
  /\ out = "none"
  /\ ops = <<>>
  /\ pre = fs

CallDefineBoundaryFiles ==
  /\ prog = "fv3"
  /\ Alive
  /\ Called("_define_boundary_files", "none", [fs |-> fs, ops |-> <<>>, out |-> "returned"])
  /\ bfiles' = _define_boundary_files(config)
  /\ ret' = "dict"
  /\ UNCHANGED <<prog, dry_run, batch, config, graph_arg, trace, rc>>

NextBoundary == CallDefineBoundaryFiles

SpecBoundary == InitBoundary /\ [][NextBoundary]_vars

\* ----------------------------------------------------------------- claims
Has(o) == \E k \in 1..Len(ops) : ops[k].op = o
Mutating == {"rmtree", "move", "makedirs", "symlink", "write", "submit", "spawn"}
FsAccess == Mutating \cup {"isdir"}
EmptySubdirs(d) == {Ent(Join(d, INPUT), "dir", NoData), Ent(Join(d, RESTART), "dir", NoData)}
Populated(f, d) == IsDir(f, d) /\ Under(f, d) # {}

\* C1: run() in direct mode (no batch script) with dry_run set only logs the
\* run command: the filesystem is the same after the call as before, and no
\* subprocess is spawned.
C1_DirectDryRunNoSideEffect ==
  (op = "run" /\ batch = <<>> /\ dry_run) =>
     (fs = pre /\ ~Has("spawn") /\ \A k \in 1..Len(ops) : ops[k].op \notin Mutating)

\* C2: run() in batch mode with dry_run set logs the rendered batch script and
\* returns without writing the script file and without submitting a job; a
\* script write or a job submission happens only when dry_run is false.
C2_BatchDryRunNoWriteNoSubmit ==
  (op = "run" /\ batch # <<>>) =>
     /\ (dry_run /\ out = "returned") =>
          /\ ops[Len(ops)] = Ev("log", <<>>, batch_script(config))
          /\ ~Exists(fs, Join(config.run_dir, batch[1]))
     /\ (Has("write") \/ Has("submit")) => ~dry_run
     /\ (~dry_run /\ out = "returned") => (Has("write") /\ Has("submit"))

C2_Witness ==
  op = "run" /\ batch # <<>> /\ dry_run /\ out = "returned" /\ Populated(pre, RunDir)

\* C3: create_directory_structure with a policy other than 'delete', 'rename'
\* or 'quit' raises an error before any filesystem access: no existence check,
\* deletion, rename or directory creation, whatever the run directory's state.
C3_BadPolicyRejectedFirst ==
  (op = "create_directory_structure" /\ arg \notin {"delete", "rename", "quit"}) =>
     (out = "ValueError" /\ ops = <<>> /\ fs = pre)

C3_Witness ==
  op = "create_directory_structure" /\ arg = "frobnicate" /\ Populated(pre, RunDir)

\* C4: create_directory_structure with policy 'quit' on an existing run
\* directory leaves the directory and its contents untouched, exits the process
\* with status 1, and nothing further happens in the process.
C4_QuitState ==
  (op = "create_directory_structure" /\ arg = "quit" /\ IsDir(pre, RunDir)) =>
     /\ out = "exit1"
     /\ fs = pre
     /\ \A k \in 1..Len(ops) : ops[k].op \notin Mutating
C4_QuitLeavesUntouchedAndExits ==
  [](C4_QuitState) /\ [][out = "exit1" => UNCHANGED vars]_vars

C4_Witness ==
  op = "create_directory_structure" /\ arg = "quit" /\ Populated(pre, RunDir) /\ out = "exit1"

\* C5: create_directory_structure with policy 'delete' on an existing populated
\* run directory returns with the run directory holding exactly the two empty
\* subdirectories INPUT and RESTART and none of its previous contents.
C5_DeleteLeavesOnlySubdirs ==
  (op = "create_directory_structure" /\ arg = "delete" /\ Populated(pre, RunDir)) =>
     /\ out = "returned"
     /\ IsDir(fs, RunDir)
     /\ Under(fs, RunDir) = EmptySubdirs(RunDir)

C5_Witness ==
  /\ op = "create_directory_structure" /\ arg = "delete" /\ out = "returned"
  /\ Ent(Join(Join(RunDir, INPUT), OldFile), "file", OldData) \in pre

\* C6: create_directory_structure with policy 'rename' on an existing run
\* directory destroys nothing: the original contents are intact under a sibling
\* name that did not exist before, and the run directory is a fresh directory
\* holding only the empty INPUT and RESTART.
C6_RenamePreserves ==
  (op = "create_directory_structure" /\ arg = "rename" /\ IsDir(pre, RunDir)) =>
     LET saved == SaveDir(RunDir, now - 1)
     IN /\ out = "returned"
        /\ saved # RunDir
        /\ ~\E e \in pre : IsPrefix(saved, e.path)
        /\ {Rebase(e, saved, RunDir) : e \in {x \in fs : IsPrefix(saved, x.path)}}
             = {e \in pre : IsPrefix(RunDir, e.path)}
        /\ {e \in pre : ~IsPrefix(RunDir, e.path)} \subseteq fs
        /\ IsDir(fs, RunDir)
        /\ Under(fs, RunDir) = EmptySubdirs(RunDir)

C6_Witness ==
  /\ op = "create_directory_structure" /\ arg = "rename" /\ out = "returned"
  /\ Ent(Join(Join(RunDir, INPUT), OldFile), "file", OldData) \in pre
  /\ Ent(Join(Join(SaveDir(RunDir, now - 1), INPUT), OldFile), "file", OldData) \in fs

Last(q) == q[Len(q)]
EventsOf(o, id) == {k \in 1..Len(ops) : ops[k].op = o /\ ops[k].path = id}
GraphWrites == {k \in 1..Len(ops) : ops[k].op = "write" /\ ops[k].path = GraphFile}
EntriesAt(f, p) == {e \in f : e.path = p}

\* C7: execute() with a name that is not a declared task of the driver is an
\* error reported before any side effect: it does not return True, calls
\* nothing, and writes no graph file.
C7_UnknownTaskIsUsageError ==
  (op = "execute" /\ arg \notin ChgresTasks) =>
     (out # "returned" /\ ret # "True" /\ ops = <<>> /\ fs = pre)

\* C8: execute() of a task returns True exactly when the task method
\* completes without raising; the graph file is written exactly when
\* graph_file is given and the task completed, after the evaluation, and holds
\* the graph of that evaluation; if the task raises, the graph file is left
\* as it was.
C8_ExecuteReturnAndGraph ==
  (op = "execute" /\ arg \in ChgresTasks) =>
     LET R == TopLevel(Env, pre, T1(arg))
     IN /\ (ret = "True") <=> (R.out = "ok")
        /\ (R.out = "ok") <=> (out = "returned")
        /\ (GraphWrites # {}) <=> (graph_arg # <<>> /\ R.out = "ok")
        /\ GraphWrites # {} =>
             /\ GraphWrites = {Len(ops)}
             /\ Last(ops).data = graph(R.trace)
             /\ Last(R.trace).task = T1(arg)
             /\ {n.task : n \in {R.trace[k] : k \in 1..Len(R.trace)}}
                  = {ops[k].path : k \in {j \in 1..Len(ops) : ops[j].op = "eval"}}
             /\ DataOf(fs, GraphFile) = graph(R.trace)
             /\ trace = R.trace
        /\ GraphWrites = {} => EntriesAt(fs, GraphFile) = EntriesAt(pre, GraphFile)

C8_Witness ==
  /\ op = "execute" /\ arg = "provisioned_rundir" /\ graph_arg = GraphFile /\ ret = "True"
  /\ pretrace # <<>> /\ pretrace # trace
  /\ Exists(pre, GraphFile) /\ DataOf(pre, GraphFile) = graph(pretrace)
  /\ DataOf(fs, GraphFile) = graph(trace)

\* C9: evaluating Orog.provisioned_rundir evaluates its requirements in the
\* declared order and fails fast: once a requirement has failed, no later
\* requirement of the list is evaluated and none of its actions is performed.
ReqId(k) == T1(OrogRequires[k])
FailedIn(tr, id) == \E k \in 1..Len(tr) : tr[k].task = id /\ ~tr[k].ready
C9_ProvisionedRundirFailFast ==
  (prog = "orog" /\ op = "provisioned_rundir") =>
     /\ \A a, b \in 1..Len(OrogRequires) :
          \A x \in EventsOf("eval", ReqId(a)), y \in EventsOf("eval", ReqId(b)) :
             a < b => x < y
     /\ \A a, b \in 1..Len(OrogRequires) :
          (a < b /\ FailedIn(trace, ReqId(a))) =>
             (EventsOf("eval", ReqId(b)) = {} /\ EventsOf("action", ReqId(b)) = {})

\* C10: an atomic task whose asset is ready is not acted on: with INPS in the
\* run directory, evaluating input_config_file (alone or as a requirement) does
\* not rewrite it, and provisioned_rundir called again right after an
\* evaluation that ended ready performs no action and changes nothing.
InpsPath == Join(RunDir, N("INPS"))
C10_ReadyAssetSkipsAction ==
  (prog = "orog" /\ op \in OrogTasks) =>
     /\ is_file(pre, InpsPath) =>
          /\ EventsOf("action", T1("input_config_file")) = {}
          /\ \A k \in 1..Len(ops) : ops[k].op \in {"write", "copy"} => ops[k].path # InpsPath
          /\ EntriesAt(fs, InpsPath) = EntriesAt(pre, InpsPath)
     /\ (op = "provisioned_rundir" /\ pretrace # <<>>
           /\ Last(pretrace).task = T1("provisioned_rundir") /\ Last(pretrace).ready) =>
          (~Has("action") /\ fs = pre /\ out = "returned" /\ Last(trace).ready)

C10_Witness ==
  /\ prog = "orog" /\ op = "provisioned_rundir" /\ pretrace # <<>>
  /\ Last(pretrace).task = T1("provisioned_rundir") /\ Last(pretrace).ready
  /\ is_file(pre, InpsPath) /\ DataOf(pre, InpsPath) = InpsContent(config).lines
  /\ config.grid_file # NoneGrid /\ DOMAIN config.files_to_copy # {}
  /\ ~dry_run /\ ~Has("action") /\ Has("eval")

\* C11: the input config file written by Orog.input_config_file starts, when
\* old_line1_items supplies the nine fields, with their values in the order
\* mtnres, lonb, latb, jcap, nr, nf1, nf2, efac, blat, whatever their order in
\* the configuration; when old_line1_items is absent or empty that line is
\* left out and the file starts with the grid file line.
InpsActed ==
  /\ prog = "orog" /\ op \in OrogTasks
  /\ EventsOf("action", T1("input_config_file")) # {}
  /\ ~IsFile(pre, RunDir)
NineInOrder == [k \in 1..9 |-> Num(k)]
C11_InpsFirstLine ==
  InpsActed =>
     /\ out = "returned"
     /\ is_file(fs, InpsPath)
     /\ LET old == config.old_line1_items
            data == DataOf(fs, InpsPath)
        IN IF old # <<>> /\ old[1] # <<>>
             THEN Len(data) >= 2 /\ data[1] = NineInOrder /\ data[2] = config.grid_file
             ELSE Len(data) >= 1 /\ data[1] = config.grid_file

\* C12: the run command is the same in every mode of FV3Forecast.run for a
\* given configuration: the last line of the batch script (logged by a dry run,
\* written otherwise), the command a direct dry run logs and the command a
\* direct run spawns are all the launch command, the configured runtime
\* arguments and the executable.
TheCommand == <<N(config.mpicmd)>> \o config.mpi_args \o <<N(config.exec_name)>>
C12_SameCommandInAllModes ==
  (op = "run" /\ out = "returned") =>
     IF batch # <<>>
       THEN IF dry_run
              THEN Last(ops).op = "log" /\ Last(Last(ops).data) = TheCommand
              ELSE /\ \E k \in 1..Len(ops) : ops[k].op = "write" /\ Last(ops[k].data) = TheCommand
                   /\ Last(DataOf(fs, Join(config.run_dir, batch[1]))) = TheCommand
       ELSE /\ Last(ops).op = (IF dry_run THEN "log" ELSE "spawn")
            /\ Last(ops).data = <<TheCommand>>

C12_Witness ==
  /\ op = "run" /\ out = "returned" /\ batch # <<>> /\ ~dry_run
  /\ config.mpi_args # <<>>
  /\ Last(DataOf(fs, Join(config.run_dir, batch[1]))) = TheCommand

\* The batch script of the last run() in batch mode: what a dry run logged,
\* what a real run wrote.
BatchRan == op = "run" /\ out = "returned" /\ batch # <<>>
ScriptOf == IF dry_run THEN Last(ops).data ELSE DataOf(fs, Join(config.run_dir, batch[1]))
NDirectives == Len(Directives(config))
NEnv == Len(EnvVars(config))

\* C13 as stated: the batch script is the directive lines, then one line
\* holding all the KEY=VALUE settings, then the run command line, and nothing
\* else.
C13_OneEnvLine ==
  BatchRan =>
     /\ SubSeq(ScriptOf, 1, NDirectives) = Directives(config)
     /\ Len(ScriptOf) = NDirectives + 2
     /\ ScriptOf[NDirectives + 1] = EnvVars(config)
     /\ Last(ScriptOf) = TheCommand

\* C13 as amended: the batch script is the directive lines, then the
\* KEY=VALUE settings joined by the newline delimiter, that is one line per
\* setting in the order KMP_AFFINITY, OMP_NUM_THREADS, OMP_STACKSIZE,
\* MPI_TYPE_DEPTH, ESMF_RUNTIME_COMPLIANCECHECK, then the run command line
\* last; the directive lines are kept as a prefix (the script is only
\* appended to).
C13_EnvLinesThenCommand ==
  BatchRan =>
     /\ IsPrefix(Directives(config), ScriptOf)
     /\ Len(ScriptOf) = NDirectives + NEnv + 1
     /\ \A k \in 1..NEnv : ScriptOf[NDirectives + k] = <<EnvVars(config)[k]>>
     /\ NEnv = 5
     /\ ScriptOf[NDirectives + 1] = <<N("KMP_AFFINITY=scatter")>>
     /\ ScriptOf[NDirectives + 2][1].b = "OMP_NUM_THREADS="
     /\ Last(ScriptOf) = TheCommand
     /\ \A k \in 1..(Len(ScriptOf) - 1) : ScriptOf[k] # TheCommand

C13_Witness ==
  /\ BatchRan /\ ~dry_run
  /\ Len(ScriptOf) = NDirectives + 6
  /\ \E k \in 1..Len(ops) : ops[k].op = "submit"

\* C14: in direct mode the command line that run() logs (dry run) or spawns
\* holds the executable, the runtime arguments and the environment variable
\* settings (KMP_AFFINITY, OMP_NUM_THREADS among them).
DirectRan == op = "run" /\ out = "returned" /\ batch = <<>>
Tokens(line) == {line[k] : k \in 1..Len(line)}
C14_DirectCommandHasEnv ==
  DirectRan =>
     LET line == Last(ops).data[1]
     IN /\ Last(ops).op \in {"log", "spawn"}
        /\ N(config.exec_name) \in Tokens(line)
        /\ Tokens(config.mpi_args) \subseteq Tokens(line)
        /\ N("KMP_AFFINITY=scatter") \in Tokens(line)
        /\ \E tk \in Tokens(line) : tk.b = "OMP_NUM_THREADS="

\* C15: in direct mode without dry_run, a non-zero exit status of the spawned
\* process raises nothing out of run(), and run() hands the status back to its
\* caller.
StatusOf(x) == IF x = 0 THEN "exit 0" ELSE "exit non-zero"
C15_ExitStatusIsData ==
  (op = "run" /\ batch = <<>> /\ ~dry_run /\ Has("spawn") /\ rc # 0) =>
     (out = "returned" /\ ret = StatusOf(rc))

\* C16: the configuration held by the driver never changes: after any
\* sequence of calls it is the mapping the driver was constructed with.
C16_ConfigImmutable == [][config' = config]_vars

\* C17: the action of input_config_file runs only after the grid_file task
\* was evaluated and found ready; when the configured grid file (other than
\* "none") is not an existing file, input_config_file ends not ready, its
\* action is not run and INPS is not written.
OrogCall == prog = "orog" /\ op \in OrogTasks
GridMissing == config.grid_file # NoneGrid /\ ~is_file(pre, config.grid_file)
InpsTask == T1("input_config_file")
C17_GridFileBeforeInps ==
  OrogCall =>
     /\ \A k \in EventsOf("action", InpsTask) :
           /\ \E j \in EventsOf("eval", T1("grid_file")) : j < k
           /\ ~FailedIn(trace, T1("grid_file"))
     /\ GridMissing =>
           /\ EventsOf("action", InpsTask) = {}
           /\ \A k \in 1..Len(ops) : ~(ops[k].op = "write" /\ ops[k].path = InpsPath)
           /\ EntriesAt(fs, InpsPath) = EntriesAt(pre, InpsPath)
           /\ EventsOf("eval", InpsTask) # {} => FailedIn(trace, InpsTask)
C17_Witness ==
  /\ OrogCall /\ op = "input_config_file" /\ ~dry_run
  /\ GridMissing
  /\ IsDir(pre, RunDir) /\ ~Exists(pre, InpsPath)
  /\ out = "returned"
  /\ FailedIn(trace, InpsTask) /\ FailedIn(trace, T1("grid_file"))
  /\ ~Exists(fs, InpsPath)

\* C18: when create_directory_structure returns normally, whatever the valid
\* policy and whatever was at the path before, the run directory exists and
\* holds the directories INPUT and RESTART; when one of them cannot be created
\* the call ends in an error, and leaves no run directory passed off as made.
CreateCalled == op = "create_directory_structure" /\ arg \in Policies
HasBothSubdirs(f) ==
  /\ IsDir(f, RunDir)
  /\ IsDir(f, Join(RunDir, INPUT))
  /\ IsDir(f, Join(RunDir, RESTART))
C18_ReturnMeansSubdirs ==
  CreateCalled =>
     /\ out = "returned" => HasBothSubdirs(fs)
     /\ ~HasBothSubdirs(fs) => out \in {"exit1", "NotADirectoryError", "FileExistsError"}
     /\ (~Exists(pre, RunDir) \/ (IsDir(pre, RunDir) /\ arg # "quit")) => out = "returned"
C18_Witness ==
  /\ CreateCalled /\ arg = "quit" /\ out = "returned"
  /\ ~Exists(pre, RunDir)
  /\ HasBothSubdirs(fs)
  /\ Len(ops) = 3 /\ ops[2].op = "makedirs" /\ ops[3].op = "makedirs"

\* C19: _define_boundary_files() returns, for every configured tile and every
\* forecast hour h in {0, interval, 2*interval, ...} with h <= length, exactly
\* one entry named gfs_bndy.tile<tile>.<h>.nc whose target is the template
\* filled with the tile and the boundary hour h + |offset|, and no entry for
\* any other hour.
C19_BoundaryFiles ==
  op = "_define_boundary_files" =>
     LET off == IF config.offset < 0 THEN 0 - config.offset ELSE config.offset
         tiles == {config.tiles[k] : k \in DOMAIN config.tiles}
         hours == {h \in 0..config.length : h % config.interval_hours = 0}
     IN /\ out = "returned"
        /\ DOMAIN bfiles = {[b |-> "gfs_bndy.tile", i |-> t, j |-> h] : t \in tiles, h \in hours}
        /\ \A n \in DOMAIN bfiles :
              /\ bfiles[n] = <<[b |-> config.output_file_template, i |-> n.i, j |-> n.j + off]>>
              /\ n.j >= 0 /\ n.j <= config.length
C19_Witness ==
  /\ op = "_define_boundary_files" /\ out = "returned"
  /\ config.tiles = <<1, 2>> /\ config.offset = -1
  /\ config.interval_hours = 2 /\ config.length = 3
  /\ BndyLink(2, 2) \in DOMAIN bfiles
  /\ bfiles[BndyLink(2, 2)] = BndyTarget(config, 2, 3)
  /\ BndyLink(2, 3) \notin DOMAIN bfiles
  /\ BndyLink(2, 4) \notin DOMAIN bfiles

====
